---- MODULE Spec2Model ----
(***************************************************************************)
(* promkv: a key-value store whose values are stored as Prometheus time    *)
(* series.  The model covers promkv.go: buildWriteRequest, KV.Set, KV.Get, *)
(* getValues and getLastValue, and the metrics backend they talk to        *)
(* (remote-write ingestion and query_range evaluation).                    *)
(*                                                                         *)
(* Time.  A time.Time is an integer number of ticks since the epoch; a     *)
(* tick is a fraction of a millisecond (Go keeps nanoseconds, the model    *)
(* keeps TicksPerMs ticks per millisecond).  A Prometheus timestamp is an  *)
(* integer number of milliseconds.  float64 holds every integer the model  *)
(* reaches exactly, so a float64 is modelled by the integer it holds.      *)
(***************************************************************************)
EXTENDS Integers, Sequences, FiniteSets, TLC

\* ------------------------------------------------------------------ bounds
\* ticks of the wall clock per millisecond
TicksPerMs == 2
\* the longest value written, in bytes
MaxLen == 2
\* Set calls in one behaviour
MaxSets == 2
\* advances of the wall clock in one behaviour
MaxTicks == 1

\* --------------------------------------------------------- time constants
Millisecond == TicksPerMs
Second == 1000 * Millisecond
Minute == 60 * Second
Hour == 60 * Minute

\* the backend's lookback delta (Prometheus default: 5 minutes), in ms
LookbackDelta == 300000

\* bufio.MaxScanTokenSize: the longest line a default bufio.Scanner returns
MaxScanTokenSize == 65536

\* ------------------------------------------------------------ input sets
Keys == {"a", "b"}
Bytes == {0, 255}
Buffers == UNION {[1..n -> Bytes] : n \in 0..MaxLen}

\* the wall clock when the first command runs, and the steps it advances by
StartClock == 2 * Hour + 1
Advances == {Second + 1, Hour + 6 * Minute}

\* HTTP statuses the ingestion endpoint answers with
StatusCodes == {199, 200, 204, 299, 300, 400, 500}

\* response bodies: a sequence of lines, each a text and its length in bytes
Bodies ==
  { <<>>,
    <<[text |-> "out of memory", len |-> 13]>>,
    <<[text |-> "out of order sample", len |-> 19], [text |-> "more", len |-> 4]>>,
    <<[text |-> "long", len |-> MaxScanTokenSize - 1]>>,
    <<[text |-> "toolong", len |-> MaxScanTokenSize]>> }

\* ------------------------------------------------------------ conversions
\* timestamp.FromTime: a time.Time to milliseconds since the epoch
FromTime(t) == t \div TicksPerMs

\* timestamp.Time: milliseconds since the epoch to a time.Time
Time(ms) == ms * TicksPerMs

\* byte(fb): a float64 sample value back to a byte (every value the store
\* holds for the content series is a whole number in 0..255)
ToByte(fb) == fb % 256

\* ------------------------------------------------------ buildWriteRequest
MetricTimestamp == "promkv_file_timestamp_seconds"
MetricSize == "promkv_file_size_bytes"
MetricContent == "promkv_file_content"
Metrics == {MetricTimestamp, MetricSize, MetricContent}

Metadata ==
  << [Type |-> "GAUGE", MetricFamilyName |-> MetricTimestamp, Unit |-> "seconds"],
     [Type |-> "GAUGE", MetricFamilyName |-> MetricSize, Unit |-> "bytes"],
     [Type |-> "GAUGE", MetricFamilyName |-> MetricContent, Unit |-> ""] >>

Labels(metric, name) ==
  << [Name |-> "__name__", Value |-> metric], [Name |-> "key", Value |-> name] >>

dataOffset(bb) == Second * Len(bb)

\* startTimestamp with the offset added instead of subtracted
startTimestampForward(bb, now) == now + dataOffset(bb)

\* the timestamp of the very first byte written
startTimestamp(bb, now) == now - dataOffset(bb)

\* the timestamp of the size sample and of the start sample
metaTimestamp(bb, now) == FromTime(startTimestamp(bb, now))

\* contentSeries with the loop stopping one byte early
contentSeriesShort(name, bb, now) ==
  [ Labels |-> Labels(MetricContent, name),
    Samples |-> [i \in 1..(Len(bb) - 1) |->
                   [ Value |-> bb[i],
                     Timestamp |-> FromTime(startTimestamp(bb, now) + Second * (i - 1)) ]] ]

contentSeries(name, bb, now) ==
  [ Labels |-> Labels(MetricContent, name),
    Samples |-> [i \in 1..Len(bb) |->
                   [ Value |-> bb[i],
                     Timestamp |-> FromTime(startTimestamp(bb, now) + Second * (i - 1)) ]] ]

\* buildWriteRequest with the size sample stamped at now
buildWriteRequestSizeAtNow(name, bb, now) ==
  [ Metadata |-> Metadata,
    Timeseries |->
      << [ Labels |-> Labels(MetricTimestamp, name),
           Samples |-> << [ Timestamp |-> metaTimestamp(bb, now),
                            Value |-> FromTime(startTimestamp(bb, now)) ] >> ],
         [ Labels |-> Labels(MetricSize, name),
           Samples |-> << [ Timestamp |-> FromTime(now),
                            Value |-> Len(bb) ] >> ],
         contentSeries(name, bb, now) >> ]

buildWriteRequest(name, bb, now) ==
  [ Metadata |-> Metadata,
    Timeseries |->
      << [ Labels |-> Labels(MetricTimestamp, name),
           Samples |-> << [ Timestamp |-> metaTimestamp(bb, now),
                            Value |-> FromTime(startTimestamp(bb, now)) ] >> ],
         [ Labels |-> Labels(MetricSize, name),
           Samples |-> << [ Timestamp |-> metaTimestamp(bb, now),
                            Value |-> Len(bb) ] >> ],
         contentSeries(name, bb, now) >> ]

\* ------------------------------------------------------------ the backend
\* A series is identified by its metric name and its key label; the backend
\* keeps, per series, the samples it ingested: a function from a timestamp
\* (ms) to a value.  Samples are never deleted.
SeriesIds == Metrics \X Keys

SeriesId(ts) == <<ts.Labels[1].Value, ts.Labels[2].Value>>

SamplesOf(ts) ==
  [ t \in {ts.Samples[i].Timestamp : i \in DOMAIN ts.Samples} |->
      ts.Samples[CHOOSE i \in DOMAIN ts.Samples : ts.Samples[i].Timestamp = t].Value ]

\* the samples a write request carries for one series
Written(req, id) ==
  IF \E i \in DOMAIN req.Timeseries : SeriesId(req.Timeseries[i]) = id
  THEN SamplesOf(req.Timeseries[CHOOSE i \in DOMAIN req.Timeseries :
                                   SeriesId(req.Timeseries[i]) = id])
  ELSE <<>>

\* Remote write: every sample of the batch is appended to its series.  For a
\* sample whose timestamp the series already holds, the backend keeps either
\* the new value (overwrite) or the one it has.
Ingest(st, req, overwrite) ==
  [ id \in SeriesIds |->
      IF overwrite THEN Written(req, id) @@ st[id] ELSE st[id] @@ Written(req, id) ]

SetMax(S) == CHOOSE x \in S : \A y \in S : y <= x

\* the timestamps of the samples an instant selector sees at instant t (ms)
Visible(samples, t) == {u \in DOMAIN samples : u <= t /\ u > t - LookbackDelta}

\* query_range: the selector is evaluated at start, start+step, ... <= end
\* (all in ms); a step with a visible sample yields the most recent one's value
RangeValues(samples, start, end, step) ==
  LET n == IF end < start THEN 0 ELSE (end - start) \div step + 1
      at(k) == start + (k - 1) * step
      all == [ k \in 1..n |->
                 [ has |-> Visible(samples, at(k)) # {},
                   Timestamp |-> at(k),
                   Value |-> IF Visible(samples, at(k)) = {} THEN 0
                             ELSE samples[SetMax(Visible(samples, at(k)))] ] ]
      Has(p) == p.has
      kept == SelectSeq(all, Has)
  IN [ k \in 1..Len(kept) |-> [Timestamp |-> kept[k].Timestamp, Value |-> kept[k].Value] ]

\* the model.Matrix a range query returns: one series per matching series
\* that has a point in the range, none when no step sees a sample
QueryRange(st, expr, r) ==
  LET vals == RangeValues(st[<<expr.metric, expr.key>>],
                          FromTime(r.Start), FromTime(r.End), r.Step \div Millisecond)
  IN IF vals = <<>> THEN <<>>
     ELSE << [Metric |-> Labels(expr.metric, expr.key), Values |-> vals] >>

\* a selector that matches the metric under every key: the key is dropped
ExprAnyKey(metric, name) == [metric |-> metric, key |-> "a"]

\* fmt.Sprintf("<metric>{key=%q}", name): a selector with an exact key match
Expr(metric, name) == [metric |-> metric, key |-> name]

\* ------------------------------------------------------------------ errors
\* an error value: nil, or what failed and what it carries
NilErr == [type |-> "nil", status |-> 0, line |-> "", cause |-> ""]
CauseErr(type, cause) == [type |-> type, status |-> 0, line |-> "", cause |-> cause]

\* fmt.Errorf("server returned HTTP status %s: %s", httpResp.Status, line)
StatusErr(status, line) == [type |-> "status", status |-> status, line |-> line, cause |-> ""]

\* url.Parse, as api.NewClient and http.NewRequestWithContext call it
URLs == {"http://prometheus", ":bad"}
URLValid(u) == u # ":bad"

\* ---------------------------------------------------------------- KV.Set
\* What the world hands one Set call: whether reading r fails, and what
\* cli.Do returns: a network error (the request delivered or not) or an HTTP
\* response.
NetResponse(cause, delivered) ==
  [kind |-> "net", cause |-> cause, delivered |-> delivered, StatusCode |-> 0, Body |-> <<>>]
HTTPResponse(status, body) ==
  [kind |-> "http", cause |-> "", delivered |-> TRUE, StatusCode |-> status, Body |-> body]

NetErrors == {"connection refused", "context canceled"}

Responses ==
  {NetResponse(c, d) : c \in NetErrors, d \in BOOLEAN}
    \cup {HTTPResponse(st, b) : st \in StatusCodes, b \in Bodies}

\* the responses the whole-system specification draws from
CoreResponses ==
  { HTTPResponse(200, <<>>),
    HTTPResponse(500, <<[text |-> "out of memory", len |-> 13]>>) }

\* bufio.Scanner: Scan() yields the first line unless the body is empty or the
\* line does not fit the scanner's buffer; line stays "" then
FirstLine(body) ==
  IF body = <<>> THEN ""
  ELSE IF body[1].len >= MaxScanTokenSize THEN ""
  ELSE body[1].text

\* the status test taking only 4xx and 5xx for failures
IsFailureFrom400(StatusCode) == StatusCode >= 400

\* the status test of Set
IsFailure(StatusCode) == StatusCode \div 100 # 2

\* the error Set returns
SetReturn(o, readErr, resp) ==
  IF readErr THEN CauseErr("read", "read error")
  ELSE IF ~URLValid(o.WriteURL) THEN CauseErr("url", "parse error")
  ELSE IF resp.kind = "net" THEN CauseErr("net", resp.cause)
  ELSE IF IsFailure(resp.StatusCode) THEN StatusErr(resp.StatusCode, FirstLine(resp.Body))
  ELSE NilErr

\* cli.Do was called
SetSends(o, readErr) == ~readErr /\ URLValid(o.WriteURL)

\* the backend stored the batch: it answered 2xx, or the request was
\* delivered and the answer lost
Stored(o, readErr, resp) ==
  /\ SetSends(o, readErr)
  /\ \/ resp.kind = "http" /\ resp.StatusCode \div 100 = 2
     \/ resp.kind = "net" /\ resp.delivered

\* ------------------------------------------------- getValues, getLastValue
\* getLastValue: the last sample's value of the last series; indexing an
\* empty matrix panics
getLastValue(val) ==
  IF Len(val) = 0 THEN [panic |-> TRUE, value |-> 0]
  ELSE LET samples == val[Len(val)].Values
       IN IF Len(samples) = 0 THEN [panic |-> TRUE, value |-> 0]
          ELSE [panic |-> FALSE, value |-> samples[Len(samples)].Value]

\* getValues: every sample value of the last series; indexing an empty matrix
\* panics
getValues(val) ==
  IF Len(val) = 0 THEN [panic |-> TRUE, points |-> <<>>]
  ELSE LET samples == val[Len(val)].Values
       IN [panic |-> FALSE, points |-> [i \in 1..Len(samples) |-> samples[i].Value]]

\* cap(points) after appending n values one at a time to a nil []float64:
\* append doubles the capacity (0, 1, 2, 4, 8, ...)
RECURSIVE GrowCap(_, _)
GrowCap(c, n) == IF c >= n THEN c ELSE GrowCap(IF c = 0 THEN 1 ELSE 2 * c, n)
Cap(n) == GrowCap(0, n)

\* points[:n]: panics when n is negative or exceeds cap(points); elements
\* between len and cap are the zeroes append left in the backing array
SliceTo(points, n) ==
  IF n < 0 \/ n > Cap(Len(points)) THEN [panic |-> TRUE, points |-> <<>>]
  ELSE [panic |-> FALSE,
        points |-> [i \in 1..n |-> IF i <= Len(points) THEN points[i] ELSE 0]]

\* the byte slice Get builds from floatBytes
ToBytes(floatBytes) == [i \in 1..Len(floatBytes) |-> ToByte(floatBytes[i])]

\* the lookback range of the size and start queries
MetaRange(now) == [Start |-> now - Hour, End |-> now, Step |-> Minute]

\* dataRange starting one step late
dataRangeLate(timestampSecs, fileSize) ==
  [ Start |-> Time(timestampSecs) + Second,
    End |-> Time(timestampSecs) + Second * fileSize,
    Step |-> Second ]

\* dataRange of Get
dataRange(timestampSecs, fileSize) ==
  [ Start |-> Time(timestampSecs),
    End |-> Time(timestampSecs) + Second * fileSize,
    Step |-> Second ]

\* ------------------------------------------------------------------- state
VARIABLES
  clock,             \* time.Now(), in ticks
  nTicks,            \* how often the clock advanced
  opts,              \* KV.opts: APIURL and WriteURL
  store,             \* the backend: per series, timestamp (ms) -> value
  hist,              \* the writes the backend stored, in order
  wlast,             \* the last Set call: its inputs, its request, its return
  nSets,             \* Set calls so far
  gpc,               \* where the running Get is: idle, size, start, content
  gname,             \* the running Get's key
  fileSizeBytes,     \* Get's local
  timestampSeconds,  \* Get's local
  glog,              \* the queries the Get issued, in order
  gret,              \* what the last Get returned (bytes, error or panic)
  gbase,             \* Len(hist) when the Get was called
  gover              \* a write to gname was stored while the Get ran

vars ==
  << clock, nTicks, opts, store, hist, wlast, nSets, gpc, gname, fileSizeBytes,
     timestampSeconds, glog, gret, gbase, gover >>

getVars == <<gpc, gname, fileSizeBytes, timestampSeconds, glog, gret, gbase, gover>>
setVars == <<store, hist, wlast, nSets>>

EmptyReq == [Metadata |-> <<>>, Timeseries |-> <<>>]

NoSet ==
  [ called |-> FALSE, name |-> "", bb |-> <<>>, now |-> 0, readErr |-> FALSE,
    resp |-> HTTPResponse(0, <<>>), built |-> FALSE, sent |-> FALSE,
    req |-> EmptyReq, ret |-> NilErr ]

NoGet == [kind |-> "none", bytes |-> <<>>, err |-> NilErr]
GetBytes(bb) == [kind |-> "bytes", bytes |-> bb, err |-> NilErr]
GetErr(e) == [kind |-> "err", bytes |-> <<>>, err |-> e]
GetPanic == [kind |-> "panic", bytes |-> <<>>, err |-> NilErr]

\* New(opts): nothing stored, no call made
Init ==
  /\ clock = StartClock
  /\ nTicks = 0
  /\ opts \in [APIURL : URLs, WriteURL : URLs]
  /\ store = [id \in SeriesIds |-> <<>>]
  /\ hist = <<>>
  /\ wlast = NoSet
  /\ nSets = 0
  /\ gpc = "idle"
  /\ gname = ""
  /\ fileSizeBytes = 0
  /\ timestampSeconds = 0
  /\ glog = <<>>
  /\ gret = NoGet
  /\ gbase = 0
  /\ gover = FALSE

\* the wall clock advances by d
Advance(d) ==
  /\ clock' = clock + d
  /\ nTicks' = nTicks + 1
  /\ UNCHANGED <<opts, store, hist, wlast, nSets>>
  /\ UNCHANGED getVars

\* the wall clock advances, at most MaxTicks times
Tick == nTicks < MaxTicks /\ \E d \in Advances : Advance(d)

\* KV.Set(ctx, name, r): r yields bb (or fails), the request is built at
\* time.Now() = clock, posted, and the answer turned into the return value
Set(name, bb, readErr, resp, overwrite) ==
  /\ nSets' = nSets + 1
  /\ LET req == buildWriteRequest(name, bb, clock)
         stored == Stored(opts, readErr, resp)
     IN /\ wlast' = [ called |-> TRUE, name |-> name, bb |-> bb, now |-> clock,
                      readErr |-> readErr, resp |-> resp,
                      built |-> ~readErr,
                      sent |-> SetSends(opts, readErr),
                      req |-> IF readErr THEN EmptyReq ELSE req,
                      ret |-> SetReturn(opts, readErr, resp) ]
        /\ store' = IF stored THEN Ingest(store, req, overwrite) ELSE store
        /\ hist' = IF stored
                   THEN Append(hist, [ name |-> name, bb |-> bb, now |-> clock,
                                       ok |-> SetReturn(opts, readErr, resp) = NilErr ])
                   ELSE hist
        /\ gover' = (gover \/ (stored /\ gpc # "idle" /\ name = gname))
  /\ UNCHANGED <<clock, nTicks, opts>>
  /\ UNCHANGED <<gpc, gname, fileSizeBytes, timestampSeconds, glog, gret, gbase>>

\* one entry of the Get's query log: the query, its range, its error, and of
\* the answer the number of series and the last one's sample values
Logged(metric, r, cause, val) ==
  [ q |-> metric, expr |-> Expr(metric, gname), range |-> r, err |-> cause,
    series |-> Len(val), points |-> getValues(val).points ]

\* KV.Get(ctx, name), up to api.NewClient
GetCall(name) ==
  /\ gpc = "idle"
  /\ gname' = name
  /\ glog' = <<>>
  /\ gbase' = Len(hist)
  /\ gover' = FALSE
  /\ fileSizeBytes' = 0
  /\ timestampSeconds' = 0
  /\ IF URLValid(opts.APIURL)
     THEN gpc' = "size" /\ gret' = NoGet
     ELSE gpc' = "idle" /\ gret' = GetErr(CauseErr("url", "parse error"))
  /\ UNCHANGED <<clock, nTicks, opts>>
  /\ UNCHANGED setVars

\* the first query: promkv_file_size_bytes; cause is the error QueryRange
\* returns, "" for none
GetSize(cause) ==
  /\ gpc = "size"
  /\ LET r == MetaRange(clock)
         val == IF cause = "" THEN QueryRange(store, Expr(MetricSize, gname), r) ELSE <<>>
         last == getLastValue(val)
     IN /\ glog' = Append(glog, Logged(MetricSize, r, cause, val))
        /\ IF cause # ""
           THEN gpc' = "idle" /\ gret' = GetErr(CauseErr("query", cause))
                /\ UNCHANGED fileSizeBytes
           ELSE IF last.panic
           THEN gpc' = "idle" /\ gret' = GetPanic /\ UNCHANGED fileSizeBytes
           ELSE gpc' = "start" /\ gret' = gret /\ fileSizeBytes' = last.value
  /\ UNCHANGED <<clock, nTicks, opts, gname, timestampSeconds, gbase, gover>>
  /\ UNCHANGED setVars

\* GetStart going on to the content query after a failed query
GetStartContinues(cause) ==
  /\ gpc = "start"
  /\ LET r == MetaRange(clock)
         val == IF cause = "" THEN QueryRange(store, Expr(MetricTimestamp, gname), r) ELSE <<>>
         last == getLastValue(val)
     IN /\ glog' = Append(glog, Logged(MetricTimestamp, r, cause, val))
        /\ IF cause = "" /\ last.panic
           THEN gpc' = "idle" /\ gret' = GetPanic /\ UNCHANGED timestampSeconds
           ELSE gpc' = "content" /\ gret' = gret /\ timestampSeconds' = last.value
  /\ UNCHANGED <<clock, nTicks, opts, gname, fileSizeBytes, gbase, gover>>
  /\ UNCHANGED setVars

\* the second query: promkv_file_timestamp_seconds
GetStart(cause) ==
  /\ gpc = "start"
  /\ LET r == MetaRange(clock)
         val == IF cause = "" THEN QueryRange(store, Expr(MetricTimestamp, gname), r) ELSE <<>>
         last == getLastValue(val)
     IN /\ glog' = Append(glog, Logged(MetricTimestamp, r, cause, val))
        /\ IF cause # ""
           THEN gpc' = "idle" /\ gret' = GetErr(CauseErr("query", cause))
                /\ UNCHANGED timestampSeconds
           ELSE IF last.panic
           THEN gpc' = "idle" /\ gret' = GetPanic /\ UNCHANGED timestampSeconds
           ELSE gpc' = "content" /\ gret' = gret /\ timestampSeconds' = last.value
  /\ UNCHANGED <<clock, nTicks, opts, gname, fileSizeBytes, gbase, gover>>
  /\ UNCHANGED setVars

\* the third query: promkv_file_content over dataRange, and the return
GetContent(cause) ==
  /\ gpc = "content"
  /\ LET r == dataRange(timestampSeconds, fileSizeBytes)
         val == IF cause = "" THEN QueryRange(store, Expr(MetricContent, gname), r) ELSE <<>>
         values == getValues(val)
         floatBytes == SliceTo(values.points, fileSizeBytes)
     IN /\ glog' = Append(glog, Logged(MetricContent, r, cause, val))
        /\ gret' = IF cause # "" THEN GetErr(CauseErr("query", cause))
                   ELSE IF values.panic \/ floatBytes.panic THEN GetPanic
                   ELSE GetBytes(ToBytes(floatBytes.points))
  /\ gpc' = "idle"
  /\ UNCHANGED <<clock, nTicks, opts, gname, fileSizeBytes, timestampSeconds, gbase, gover>>
  /\ UNCHANGED setVars

\* the errors api.QueryRange returns ("" is none)
QueryCauses == {"", "server unavailable"}

\* a Set call with any key and value, the world's part drawn from R
SetAny(R) ==
  /\ nSets < MaxSets
  /\ \E name \in Keys, bb \in Buffers, resp \in R, overwrite \in BOOLEAN :
       Set(name, bb, FALSE, resp, overwrite)

\* a Set call whose reader fails
SetReadError ==
  /\ nSets < MaxSets
  /\ \E name \in Keys : Set(name, <<>>, TRUE, HTTPResponse(0, <<>>), FALSE)

Next ==
  \/ Tick
  \/ SetAny(CoreResponses)
  \/ SetReadError
  \/ \E name \in Keys : GetCall(name)
  \/ \E cause \in QueryCauses : GetSize(cause)
  \/ \E cause \in QueryCauses : GetStart(cause)
  \/ \E cause \in QueryCauses : GetContent(cause)

Spec == Init /\ [][Next]_vars

\* One Set call at any instant, against every answer of the ingestion
\* endpoint: Set as a function of its inputs and of what the world hands it
Post == ~wlast.called /\ SetAny(Responses)

PostReadError == ~wlast.called /\ SetReadError

NextSet ==
  \/ Tick
  \/ Post
  \/ PostReadError

SpecSet == Init /\ [][NextSet]_vars

\* One reader racing three writers of one key: a single Get of key "a" while
\* up to MaxRaceSets Sets of "a", each answered 200, store a value of
\* RaceBuffers, the clock advancing up to MaxRaceTicks times
MaxRaceSets == 3
MaxRaceTicks == 3
RaceKey == "a"
RaceBuffers == {<<>>, <<255>>, <<0, 0, 0, 0>>}

RaceTick == nTicks < MaxRaceTicks /\ \E d \in Advances : Advance(d)

RaceSet ==
  /\ nSets < MaxRaceSets
  /\ \E bb \in RaceBuffers : Set(RaceKey, bb, FALSE, HTTPResponse(200, <<>>), TRUE)

RaceGet == gret = NoGet /\ GetCall(RaceKey)

NextRace ==
  \/ RaceTick
  \/ RaceSet
  \/ RaceGet
  \/ GetSize("")
  \/ GetStart("")
  \/ GetContent("")

SpecRace == Init /\ [][NextRace]_vars

\* =================================================================== claims
\* ------------------------------------------------------- what claims speak of
\* the last Get has returned or panicked
GetDone == gpc = "idle" /\ gret.kind # "none"

\* every query the last Get issued was answered without an error
QueriesAnswered == \A i \in DOMAIN glog : glog[i].err = ""

\* the writes to key k among the first n the backend stored
WritesTo(k, n) == {i \in 1..n : hist[i].name = k}

\* the last write to k the backend stored before the Get was called
LastWrite(k) == hist[SetMax(WritesTo(k, gbase))]

\* the timestamp (ms) of write w's size and start samples, read off the store's
\* contract: the instant of byte 0
WriteStart(w) == FromTime(w.now) - 1000 * Len(w.bb)

\* write w's samples lie inside the window of every size and start query of
\* the Get
InWindows(w) ==
  \A i \in DOMAIN glog :
    glog[i].q \in {MetricSize, MetricTimestamp} =>
      /\ FromTime(glog[i].range.Start) <= WriteStart(w)
      /\ FromTime(w.now) <= FromTime(glog[i].range.End)

\* a Get of a key ran to its end with no write to the key stored meanwhile,
\* every query answered, after at least one successful Set of the key
QuietGetAfterSet ==
  /\ GetDone
  /\ URLValid(opts.APIURL)
  /\ QueriesAnswered
  /\ ~gover
  /\ WritesTo(gname, gbase) # {}
  /\ \A i \in WritesTo(gname, gbase) : hist[i].ok

\* the series of a request that carry a metric name
SeriesNamed(req, metric) ==
  {i \in DOMAIN req.Timeseries :
     \E j \in DOMAIN req.Timeseries[i].Labels :
       /\ req.Timeseries[i].Labels[j].Name = "__name__"
       /\ req.Timeseries[i].Labels[j].Value = metric}

TheSeries(req, metric) == req.Timeseries[CHOOSE i \in SeriesNamed(req, metric) : TRUE]

KeyLabels(ts) == {ts.Labels[j].Value : j \in {j \in DOMAIN ts.Labels : ts.Labels[j].Name = "key"}}

\* C1 (as claimed): round trip.  A successful Set(K, B) followed by a Get(K),
\* no other write to K in between and the write inside the Get's query
\* windows, makes the Get return exactly B, the empty buffer included.
C1_RoundTrip ==
  (QuietGetAfterSet /\ InWindows(LastWrite(gname))) =>
    (gret.kind = "bytes" /\ gret.bytes = LastWrite(gname).bb)

\* C2 (as claimed): most recent write wins.  After successful Sets of K at
\* increasing wall-clock times, whenever a following Get(K) that overlaps no
\* Set returns bytes, they are the bytes of the last Set: never an earlier
\* Set's, never a mix.
C2_LastWriteWins ==
  ( /\ QuietGetAfterSet
    /\ \A i, j \in WritesTo(gname, gbase) : i < j => hist[i].now < hist[j].now
    /\ gret.kind = "bytes" )
  => gret.bytes = LastWrite(gname).bb

\* C3 (as claimed): absent key.  When a query of the Get is answered with no
\* matching series, the Get returns a NotFound error: it does not panic and
\* returns no data.
C3_AbsentKeyNotFound ==
  (GetDone /\ \E i \in DOMAIN glog : glog[i].err = "" /\ glog[i].series = 0)
    => (gret.kind = "err" /\ gret.err.type = "notfound")

\* the first line of a response body, whatever its length
BodyFirstLine(body) == IF body = <<>> THEN "" ELSE body[1].text

\* C4 (as claimed): Set returns nil exactly for a 2xx answer; for any other
\* status the error carries the status and the first line of the body; a
\* network error of the client is returned unchanged.
C4_SetOutcome ==
  (wlast.called /\ wlast.sent) =>
    /\ wlast.resp.kind = "http" =>
         /\ (wlast.ret = NilErr) <=> (wlast.resp.StatusCode \in 200..299)
         /\ wlast.resp.StatusCode \notin 200..299 =>
              /\ wlast.ret.type = "status"
              /\ wlast.ret.status = wlast.resp.StatusCode
              /\ wlast.ret.line = BodyFirstLine(wlast.resp.Body)
    /\ wlast.resp.kind = "net" =>
         (wlast.ret.type = "net" /\ wlast.ret.cause = wlast.resp.cause)

\* C4 (amended): as C4, the error's diagnostic being the first line of the
\* body when that line is shorter than bufio.MaxScanTokenSize bytes and empty
\* when the body is empty or its first line is that long or longer.
C4_SetOutcomeScanned ==
  (wlast.called /\ wlast.sent) =>
    /\ wlast.resp.kind = "http" =>
         /\ (wlast.ret = NilErr) <=> (wlast.resp.StatusCode \in 200..299)
         /\ wlast.resp.StatusCode \notin 200..299 =>
              /\ wlast.ret.type = "status"
              /\ wlast.ret.status = wlast.resp.StatusCode
              /\ wlast.ret.line =
                   IF wlast.resp.Body # <<>> /\ wlast.resp.Body[1].len < MaxScanTokenSize
                   THEN BodyFirstLine(wlast.resp.Body) ELSE ""
    /\ wlast.resp.kind = "net" =>
         (wlast.ret.type = "net" /\ wlast.ret.cause = wlast.resp.cause)

\* C4 witness: the endpoint answered 500 "out of memory" and Set returned an
\* error carrying both
C4_Witness ==
  /\ wlast.called /\ wlast.sent
  /\ wlast.resp.kind = "http" /\ wlast.resp.StatusCode = 500
  /\ wlast.ret.type = "status" /\ wlast.ret.status = 500
  /\ wlast.ret.line = "out of memory"

\* C5 (as claimed): in every batch built at instant now, the size sample and
\* the start sample carry the timestamp now, whatever the buffer's length.
C5_MetadataAtNow ==
  wlast.built =>
    /\ \A i \in DOMAIN TheSeries(wlast.req, MetricSize).Samples :
         TheSeries(wlast.req, MetricSize).Samples[i].Timestamp = FromTime(wlast.now)
    /\ \A i \in DOMAIN TheSeries(wlast.req, MetricTimestamp).Samples :
         TheSeries(wlast.req, MetricTimestamp).Samples[i].Timestamp = FromTime(wlast.now)

\* C6: sample count.  Every built batch holds exactly one size series with one
\* sample of value len(B), one start series with one sample, and one content
\* series with len(B) samples (none for the empty buffer), each labelled with
\* the key.
C6_SampleCount ==
  wlast.built =>
    /\ Len(wlast.req.Timeseries) = 3
    /\ \A m \in Metrics : Cardinality(SeriesNamed(wlast.req, m)) = 1
    /\ \A i \in DOMAIN wlast.req.Timeseries :
         KeyLabels(wlast.req.Timeseries[i]) = {wlast.name}
    /\ Len(TheSeries(wlast.req, MetricSize).Samples) = 1
    /\ TheSeries(wlast.req, MetricSize).Samples[1].Value = Len(wlast.bb)
    /\ Len(TheSeries(wlast.req, MetricTimestamp).Samples) = 1
    /\ Len(TheSeries(wlast.req, MetricContent).Samples) = Len(wlast.bb)

\* C6 witness: a batch was built for a two-byte buffer
C6_Witness ==
  /\ wlast.built
  /\ Len(wlast.bb) = 2
  /\ Len(TheSeries(wlast.req, MetricContent).Samples) = 2

\* C7: content layout.  In every built batch the start sample's value is the
\* instant now - len(B) seconds; content sample i (from 0) has that instant
\* plus i seconds for timestamp and the byte B[i], in 0..255, for value.
C7_ContentLayout ==
  wlast.built =>
    LET start == TheSeries(wlast.req, MetricTimestamp).Samples[1].Value
        content == TheSeries(wlast.req, MetricContent).Samples
    IN /\ start = FromTime(wlast.now) - 1000 * Len(wlast.bb)
       /\ DOMAIN content = DOMAIN wlast.bb
       /\ \A i \in DOMAIN content :
            /\ content[i].Timestamp = start + 1000 * (i - 1)
            /\ content[i].Value = wlast.bb[i]
            /\ content[i].Value \in 0..255
       /\ \A i \in DOMAIN content : i > 1 =>
            content[i].Timestamp - content[i - 1].Timestamp = 1000

\* C7 witness: a batch built for two different bytes at an instant that is
\* not a whole millisecond
C7_Witness ==
  /\ wlast.built
  /\ wlast.bb = <<0, 255>>
  /\ wlast.now % TicksPerMs # 0
  /\ TheSeries(wlast.req, MetricContent).Samples[2].Value = 255

\* C8 (as claimed): empty value.  After a successful Set(K, B) with len(B) = 0
\* a following Get(K) returns an empty buffer or a NotFound error: it does not
\* panic and returns no bytes.
C8_EmptyValue ==
  (QuietGetAfterSet /\ LastWrite(gname).bb = <<>>) =>
    \/ gret.kind = "bytes" /\ gret.bytes = <<>>
    \/ gret.kind = "err" /\ gret.err.type = "notfound"

\* the order of a Get's queries
QueryOrder == <<MetricSize, MetricTimestamp, MetricContent>>

\* C10: read sequencing, all or nothing.  The queries a Get issued are always
\* a prefix of size, start, content (each at most once, in that order); only
\* the last one issued can have failed, and then the Get has returned that
\* error and no bytes; a Get returns bytes only after three answered queries.
C10_ReadSequence ==
  /\ Len(glog) <= 3
  /\ \A i \in DOMAIN glog : glog[i].q = QueryOrder[i] /\ glog[i].expr.key = gname
  /\ \A i \in DOMAIN glog : glog[i].err # "" =>
       /\ i = Len(glog)
       /\ gpc = "idle"
       /\ gret.kind = "err" /\ gret.err.cause = glog[i].err /\ gret.bytes = <<>>
  /\ gpc = "size" => Len(glog) = 0
  /\ gpc = "start" => Len(glog) = 1
  /\ gpc = "content" => Len(glog) = 2
  /\ gret.kind = "bytes" => (Len(glog) = 3 /\ QueriesAnswered)

\* C10 witness: the second query failed and the Get returned its error after
\* two queries
C10_Witness ==
  /\ GetDone
  /\ Len(glog) = 2
  /\ glog[2].err # ""
  /\ gret.kind = "err"

\* the window Get derives from a start (ms) and a size (bytes)
ContentWindow(start, size) ==
  [Start |-> start * TicksPerMs, End |-> (start + 1000 * size) * TicksPerMs, Step |-> Second]

\* the last sample value of a logged answer
LastPoint(entry) == entry.points[Len(entry.points)]

\* C11 (as claimed): reconstruction window and truncation.  The content query
\* covers [start, start + fileSizeBytes seconds] at a 1-second step, start and
\* fileSizeBytes being the last values the first two queries returned; a Get
\* that returns bytes returns exactly fileSizeBytes of them: the first
\* fileSizeBytes sample values of the last returned series, in order, each
\* converted to a byte.
C11_WindowAndTruncation ==
  /\ Len(glog) = 3 =>
       /\ fileSizeBytes = LastPoint(glog[1])
       /\ timestampSeconds = LastPoint(glog[2])
       /\ glog[3].range = ContentWindow(timestampSeconds, fileSizeBytes)
       /\ glog[3].range.Step = Second
  /\ gret.kind = "bytes" =>
       /\ Len(gret.bytes) = fileSizeBytes
       /\ Len(glog[3].points) >= fileSizeBytes
       /\ \A i \in 1..fileSizeBytes : gret.bytes[i] = ToByte(glog[3].points[i])

\* a Get of a key written once before it was called ran to its end while
\* exactly one more Set of the key was stored, and returned bytes
RacedGet ==
  /\ GetDone
  /\ QueriesAnswered
  /\ gover
  /\ Cardinality(WritesTo(gname, gbase)) = 1
  /\ Cardinality(WritesTo(gname, Len(hist))) = 2
  /\ gret.kind = "bytes"

\* the write stored while the Get ran
RacingWrite == hist[SetMax(WritesTo(gname, Len(hist)))]

\* the Get took its size from the earlier write and its start from the
\* racing one, the two writes' samples not a whole number of seconds apart
MixedRead ==
  /\ RacedGet
  /\ fileSizeBytes = Len(LastWrite(gname).bb)
  /\ timestampSeconds = WriteStart(RacingWrite)
  /\ (FromTime(RacingWrite.now) - FromTime(LastWrite(gname).now)) % 1000 # 0

Min(a, b) == IF a <= b THEN a ELSE b

\* C12: torn read.  Get is not atomic with respect to a Set of the same key.
\* Whenever a Get(K) that follows Set(K, B1) reads its size before and its
\* start after a Set(K, B2) is stored, and returns, it returns len(B1) bytes
\* of which the first min(len(B1), len(B2)) are B2's: the size of one write
\* applied to the content of the other.  The witness is such a Get whose
\* result equals neither B1 nor B2.
C12_TornRead ==
  MixedRead =>
    /\ Len(gret.bytes) = Len(LastWrite(gname).bb)
    /\ \A k \in 1..Min(Len(LastWrite(gname).bb), Len(RacingWrite.bb)) :
         gret.bytes[k] = RacingWrite.bb[k]

\* C12 witness: B1 # B2, and the Get returned a buffer that is neither
C12_Witness ==
  /\ MixedRead
  /\ LastWrite(gname).bb # RacingWrite.bb
  /\ gret.bytes # LastWrite(gname).bb
  /\ gret.bytes # RacingWrite.bb

\* what a Get of name returns when its three queries are answered from
\* store st at instant now
GetResult(st, name, now) ==
  LET size == getLastValue(QueryRange(st, Expr(MetricSize, name), MetaRange(now)))
      start == getLastValue(QueryRange(st, Expr(MetricTimestamp, name), MetaRange(now)))
      values == getValues(QueryRange(st, Expr(MetricContent, name),
                                     dataRange(start.value, size.value)))
      floatBytes == SliceTo(values.points, size.value)
  IN IF size.panic \/ start.panic THEN GetPanic
     ELSE IF values.panic \/ floatBytes.panic THEN GetPanic
     ELSE GetBytes(ToBytes(floatBytes.points))

\* C13: key isolation.  A step changes a series of the store only if it is a
\* Set and the series carries that Set's key; every query a Get issues
\* selects the exact key of the Get; and for every other key K' the result
\* of Get(K') is the same before and after a Set(K, B).
C13_KeyIsolation ==
  [][ /\ \A id \in SeriesIds :
           store'[id] # store[id] => (nSets' = nSets + 1 /\ id[2] = wlast'.name)
      /\ \A i \in DOMAIN glog' :
           glog'[i].expr = [metric |-> QueryOrder[i], key |-> gname']
      /\ nSets' # nSets =>
           \A k \in Keys \ {wlast'.name} :
             GetResult(store', k, clock') = GetResult(store, k, clock) ]_vars

\* C13 witness: a Set has just stored a non-empty value under one key while
\* another key holds a value a Get returns
C13_Witness ==
  /\ hist # <<>>
  /\ wlast.called /\ wlast.name = hist[Len(hist)].name /\ wlast.now = hist[Len(hist)].now
  /\ wlast.bb = hist[Len(hist)].bb /\ wlast.bb # <<>>
  /\ store[<<MetricContent, wlast.name>>] # <<>>
  /\ \E k \in Keys \ {wlast.name} :
       /\ GetResult(store, k, clock).kind = "bytes"
       /\ GetResult(store, k, clock).bytes # <<>>

\* the running or last Get selected a size and a start: its first two
\* queries were answered with a series each
MetadataSelected ==
  /\ Len(glog) >= 2
  /\ \A i \in 1..2 : glog[i].err = "" /\ glog[i].series > 0

\* no Set of the Get's key was stored since the Get was called, and the Sets
\* of the key before it succeeded, at distinct instants
QuietAfterSets ==
  /\ ~gover
  /\ \A i \in WritesTo(gname, gbase) : hist[i].ok
  /\ \A i, j \in WritesTo(gname, gbase) : i # j => hist[i].now # hist[j].now

\* C14: metadata pairing.  When no Set overlaps the Get, the size and the
\* start a Get(K) selects were written by one and the same Set of K: the
\* size of one write is never combined with the start of another.
C14_MetadataPairing ==
  (MetadataSelected /\ QuietAfterSets) =>
    \E i \in WritesTo(gname, gbase) :
      /\ fileSizeBytes = Len(hist[i].bb)
      /\ timestampSeconds = WriteStart(hist[i])

\* C14 witness: a quiet Get selected its size and start after two Sets of its
\* key with values of different lengths
C14_Witness ==
  /\ MetadataSelected
  /\ QuietAfterSets
  /\ \E i, j \in WritesTo(gname, gbase) :
       /\ Len(hist[i].bb) # Len(hist[j].bb)
       /\ WriteStart(hist[i]) # WriteStart(hist[j])
       /\ fileSizeBytes = Len(hist[j].bb)
       /\ timestampSeconds = WriteStart(hist[j])

====
